---------------------------- MODULE Spec2Model ----------------------------
(***************************************************************************)
(* A model of the ACTivate event recommender: the SQLite-backed store of   *)
(* src/setup_database.py (DatabaseManager) and the recommender of          *)
(* src/generate_event_screen.py (EventRecommender).                        *)
(*                                                                         *)
(* Strings are sequences of one-character strings, so that str.lower() is  *)
(* a real conversion.  A float score n/d is the pair <<n, d>> with d > 0;   *)
(* scores are compared by cross-multiplication, which agrees with the      *)
(* comparison of the correctly rounded quotients for the small n and d     *)
(* that occur here.  An optional row (fetchone() / None) is a sequence of   *)
(* length 0 or 1.                                                          *)
(***************************************************************************)
EXTENDS Integers, Sequences, FiniteSets, TLC

(***************************************************************************)
(* Bounds of the model.                                                    *)
(***************************************************************************)
\* users ids are 1..MaxUsers: the seed plus the users add_user may add
MaxUsers == 2
\* event ids are 1..MaxEvents: the seed plus the events add_event may add
MaxEvents == 2
\* datetime.now() ranges over 0..MaxTime
MaxTime == 1
\* the recommender specification stores up to MaxRecUsers users ...
MaxRecUsers == 2
\* ... and up to MaxRecEvents events
MaxRecEvents == 3
\* calculate_similarity is called with lists of up to MaxListLen strings
MaxListLen == 2
\* filter_events is called with lists of up to MaxFilterEvents events
MaxFilterEvents == 2
\* get_preferences_by_interests reads a table of up to MaxPrefUsers users
MaxPrefUsers == 2
\* get_user_events reads a table of up to MaxListedEvents events ...
MaxListedEvents == 2
\* ... and up to MaxRegistrations registrations
MaxRegistrations == 3
\* init_database runs up to MaxInits times on one database file
MaxInits == 2
\* the store a query reads holds up to MaxQueryRows registrations
MaxQueryRows == 2

VARIABLES
    users,        \* table users: id -> row
    events,       \* table events: id -> row
    user_events,  \* table user_events, in rowid order
    now,          \* the clock datetime.now() reads
    last,         \* the last call that wrote the store: name, arguments, result
    hist,         \* per (user, event): the last successful register/unregister
    pc,           \* concurrent callers: position inside register_user_for_event
    arg,          \* concurrent callers: the (user_id, event_id) of the call
    res,          \* concurrent callers: the value returned (a sequence of 0 or 1)
    wlock,        \* the connection holding the database's write lock, 0 if none
    staged,       \* concurrent callers: the row inserted and not yet committed
    overlapped,   \* whether the two callers' calls overlapped in time
    rec,          \* the last recommend_events call: arguments and result
    fn            \* the last call of a pure function or query: arguments, result

vars == <<users, events, user_events, now, last, hist,
          pc, arg, res, wlock, staged, overlapped, rec, fn>>

storeVars == <<users, events, user_events, now, last, hist>>
raceVars == <<pc, arg, res, wlock, staged, overlapped>>

(***************************************************************************)
(* Strings.                                                                *)
(***************************************************************************)
UpperToLower ==
    "A" :> "a" @@ "B" :> "b" @@ "C" :> "c" @@ "D" :> "d" @@ "E" :> "e" @@
    "F" :> "f" @@ "G" :> "g" @@ "H" :> "h" @@ "I" :> "i" @@ "J" :> "j" @@
    "K" :> "k" @@ "L" :> "l" @@ "M" :> "m" @@ "N" :> "n" @@ "O" :> "o" @@
    "P" :> "p" @@ "Q" :> "q" @@ "R" :> "r" @@ "S" :> "s" @@ "T" :> "t" @@
    "U" :> "u" @@ "V" :> "v" @@ "W" :> "w" @@ "X" :> "x" @@ "Y" :> "y" @@
    "Z" :> "z"

\* str.lower() on one character
LowerChar(c) == IF c \in DOMAIN UpperToLower THEN UpperToLower[c] ELSE c

\* str.lower()
Lower(s) == [i \in DOMAIN s |-> LowerChar(s[i])]

Range(f) == {f[i] : i \in DOMAIN f}

jazz == <<"j", "a", "z", "z">>
Jazz == <<"J", "a", "z", "z">>
music == <<"m", "u", "s", "i", "c">>
MUSIC == <<"M", "U", "S", "I", "C">>
karaoke == <<"k", "a", "r", "a", "o", "k", "e">>
band == <<"b", "a", "n", "d">>

(***************************************************************************)
(* Scores.                                                                 *)
(***************************************************************************)
\* the float 0.0
Zero == <<0, 1>>

\* a > b on floats
ScoreGt(a, b) == a[1] * b[2] > b[1] * a[2]

\* a == b on floats
ScoreEq(a, b) == a[1] * b[2] = b[1] * a[2]

\* calculate_similarity with the union taken as the two lists' lengths added
SimilarityOverListLengths(user_interests, event_tags) ==
    IF user_interests = <<>> \/ event_tags = <<>>
    THEN Zero
    ELSE <<Cardinality({Lower(user_interests[i]) : i \in DOMAIN user_interests}
                       \cap {Lower(event_tags[i]) : i \in DOMAIN event_tags}),
           Len(user_interests) + Len(event_tags)>>

\* calculate_similarity without the lower-casing of the two lists
SimilarityCaseSensitive(user_interests, event_tags) ==
    IF user_interests = <<>> \/ event_tags = <<>>
    THEN Zero
    ELSE <<Cardinality(Range(user_interests) \cap Range(event_tags)),
           Cardinality(Range(user_interests) \cup Range(event_tags))>>

\* calculate_similarity with the share of the user's interests that are tags
\* of the event in place of the Jaccard index
SimilarityOverInterests(user_interests, event_tags) ==
    IF user_interests = <<>> \/ event_tags = <<>>
    THEN Zero
    ELSE <<Cardinality({Lower(user_interests[i]) : i \in DOMAIN user_interests}
                       \cap {Lower(event_tags[i]) : i \in DOMAIN event_tags}),
           Cardinality({Lower(user_interests[i]) : i \in DOMAIN user_interests})>>

\* EventRecommender.calculate_similarity
CalculateSimilarity(user_interests, event_tags) ==
    IF user_interests = <<>> \/ event_tags = <<>>
    THEN Zero
    ELSE LET user_interests_lower ==
                 [i \in DOMAIN user_interests |-> Lower(user_interests[i])]
             event_tags_lower ==
                 [i \in DOMAIN event_tags |-> Lower(event_tags[i])]
             common_interests ==
                 Range(user_interests_lower) \cap Range(event_tags_lower)
             union_size ==
                 Cardinality(Range(user_interests_lower)
                             \cup Range(event_tags_lower))
         IN  IF union_size = 0
             THEN Zero
             ELSE <<Cardinality(common_interests), union_size>>


(***************************************************************************)
(* The store: DatabaseManager over SQLite.                                 *)
(***************************************************************************)
foodie_trails == <<"f", "o", "o", "d", "i", "e", " ", "t", "r", "a", "i", "l", "s">>
wine_appreciation ==
    <<"w", "i", "n", "e", " ", "a", "p", "p", "r", "e", "c", "i", "a", "t", "i", "o", "n">>

\* the Python values stored as JSON: a list, and None
PyList(items) == [type |-> "list", items |-> items]
PyNone == [type |-> "None"]

\* A stored text is a record: the text json.dumps writes for a value, a text
\* that is no JSON document, or the empty text.  A column that allows NULL is
\* a sequence of length 0 (NULL) or 1.
JsonDumps(value) == [kind |-> "json", value |-> value]
Undecodable == [kind |-> "undecodable"]
EmptyText == [kind |-> "empty"]

\* json.loads: the value, or <<>> for json.JSONDecodeError
JsonLoads(text) == IF text.kind = "json" THEN <<text.value>> ELSE <<>>

d2025_08_05 == <<"2", "0", "2", "5", "-", "0", "8", "-", "0", "5">>

\* populate_sample_data, users_data, cut down to one row (Eric Tan's interests,
\* preferred days and office)
SeedUsers ==
    1 :> [id |-> 1, interests |-> <<band, karaoke>>,
          preferred_day |-> <<JsonDumps(PyList(<<"Thursday", "Friday", "Tuesday">>))>>,
          office_location |-> <<"Connection 1">>]

\* populate_sample_data, events_data, cut down to one row (Jazz Under the Stars)
SeedEvents ==
    1 :> [id |-> 1, title |-> "Jazz Under the Stars",
          tags |-> <<foodie_trails, wine_appreciation, band, karaoke>>,
          date |-> d2025_08_05, organiser_id |-> 1]

\* the ids register/unregister/is_user_registered are called with: those of
\* the seed rows, and one more of each, which is stored or not
RegUserIds == {1, 2}
RegEventIds == {1, 2}
RegPairs == RegUserIds \X RegEventIds

\* sqlite3.connect() leaves PRAGMA foreign_keys at its default, OFF, and no
\* statement of DatabaseManager turns it on: the FOREIGN KEY clauses of
\* user_events are parsed and not enforced.
ForeignKeysOn == FALSE

\* FOREIGN KEY (user_id) REFERENCES users (id),
\* FOREIGN KEY (event_id) REFERENCES events (id)
ForeignKeyViolation(user_id, event_id) ==
    ForeignKeysOn /\ (user_id \notin DOMAIN users \/ event_id \notin DOMAIN events)

\* the rows WHERE user_id = ? AND event_id = ? selects
MatchingRows(rows, user_id, event_id) ==
    {i \in DOMAIN rows : rows[i].user_id = user_id /\ rows[i].event_id = event_id}

\* user_events declared without its UNIQUE(user_id, event_id) clause
NoUniqueConstraint(rows, user_id, event_id) == FALSE

\* UNIQUE(user_id, event_id)
UniqueViolation(rows, user_id, event_id) ==
    MatchingRows(rows, user_id, event_id) # {}

\* INSERT INTO user_events raises sqlite3.IntegrityError
InsertRaises(rows, user_id, event_id) ==
    UniqueViolation(rows, user_id, event_id) \/ ForeignKeyViolation(user_id, event_id)

\* DELETE FROM user_events WHERE user_id = ?, the event forgotten
DeleteRowsOfUser(rows, user_id, event_id) ==
    SelectSeq(rows, LAMBDA r : ~(r.user_id = user_id))

\* DELETE FROM user_events WHERE event_id = ?, the user forgotten
DeleteRowsOfEvent(rows, user_id, event_id) ==
    SelectSeq(rows, LAMBDA r : ~(r.event_id = event_id))

\* DELETE FROM user_events WHERE user_id = ? AND event_id = ?
DeleteRows(rows, user_id, event_id) ==
    SelectSeq(rows, LAMBDA r : ~(r.user_id = user_id /\ r.event_id = event_id))

\* success of unregister_user_from_event: True unless sqlite3.Error is raised,
\* and a DELETE that matches no row raises nothing
UnregisterSuccess(rows, user_id, event_id) == TRUE

\* DatabaseManager.is_user_registered: SELECT COUNT(*) ...; count > 0
IsUserRegistered(user_id, event_id) ==
    Cardinality(MatchingRows(user_events, user_id, event_id)) > 0

\* the rowid SQLite gives a row inserted without an id: the largest plus one
NextRowId(table) ==
    IF DOMAIN table = {} THEN 1
    ELSE (CHOOSE m \in DOMAIN table : \A k \in DOMAIN table : k <= m) + 1

\* a store call's record
Call(op, user_id, event_id, ret) ==
    [op |-> op, user_id |-> user_id, event_id |-> event_id, ret |-> ret]

\* DatabaseManager.init_database on a new database file
InitStore ==
    /\ users = SeedUsers
    /\ events = SeedEvents
    /\ user_events = <<>>
    /\ now = 0
    /\ last = Call("init_database", 0, 0, TRUE)
    /\ hist = [p \in RegPairs |-> "none"]

\* the concurrent callers, none of them inside a call
InitRace ==
    /\ pc = [p \in {1, 2} |-> "idle"]
    /\ arg = [p \in {1, 2} |-> <<0, 0>>]
    /\ res = [p \in {1, 2} |-> <<>>]
    /\ wlock = 0
    /\ staged = [p \in {1, 2} |-> <<>>]
    /\ overlapped = FALSE

\* no recommend_events call yet
InitRec == rec = [called |-> FALSE]

\* no pure function or query called yet
InitFn == fn = [op |-> "none"]

Init == InitStore /\ InitRace /\ InitRec /\ InitFn

\* time passes
Tick ==
    /\ now < MaxTime
    /\ now' = now + 1
    /\ UNCHANGED <<users, events, user_events, last, hist, raceVars, rec, fn>>

\* DatabaseManager.add_user
AddUser(interests, preferred_day, office_location, max) ==
    LET id == NextRowId(users) IN
    /\ id <= max
    /\ users' = users @@
           (id :> [id |-> id, interests |-> interests,
                   preferred_day |-> <<JsonDumps(preferred_day)>>,
                   office_location |-> office_location])
    /\ last' = Call("add_user", id, 0, TRUE)
    /\ UNCHANGED <<events, user_events, now, hist, raceVars, rec, fn>>

\* DatabaseManager.add_event
AddEvent(title, tags, date, organiser_id, max) ==
    LET id == NextRowId(events) IN
    /\ id <= max
    /\ events' = events @@ (id :> [id |-> id, title |-> title, tags |-> tags,
                                   date |-> date, organiser_id |-> organiser_id])
    /\ last' = Call("add_event", 0, id, TRUE)
    /\ UNCHANGED <<users, user_events, now, hist, raceVars, rec, fn>>

\* UPDATE events SET ..., the WHERE id = ? forgotten: every row is written
UpdateEveryEvent(event_id, title, tags, date) ==
    /\ events' = [id \in DOMAIN events |->
                    [events[id] EXCEPT !.title = title, !.tags = tags,
                                       !.date = date]]
    /\ last' = Call("update_event", 0, event_id, TRUE)
    /\ UNCHANGED <<users, user_events, now, hist, raceVars, rec, fn>>

\* DatabaseManager.update_event: UPDATE events SET ... WHERE id = ?
UpdateEvent(event_id, title, tags, date) ==
    /\ events' = [id \in DOMAIN events |->
                    IF id = event_id
                    THEN [events[id] EXCEPT !.title = title, !.tags = tags,
                                            !.date = date]
                    ELSE events[id]]
    /\ last' = Call("update_event", 0, event_id, TRUE)
    /\ UNCHANGED <<users, user_events, now, hist, raceVars, rec, fn>>

\* register_user_for_event written with INSERT OR REPLACE: a second registration
\* of a pair replaces the first and its timestamp
RegisterOrReplace(user_id, event_id) ==
    /\ user_events' =
           Append(DeleteRows(user_events, user_id, event_id),
                  [user_id |-> user_id, event_id |-> event_id,
                   registration_date |-> now])
    /\ last' = Call("register_user_for_event", user_id, event_id,
                    ~UniqueViolation(user_events, user_id, event_id))
    /\ hist' = [hist EXCEPT ![<<user_id, event_id>>] = "registered"]
    /\ UNCHANGED <<users, events, now, raceVars, rec, fn>>

\* register_user_for_event over a table whose rows unregister only marks as
\* deleted: a pair that was ever registered cannot be inserted again
RegisterOncePerPair(user_id, event_id) ==
    LET success == /\ ~InsertRaises(user_events, user_id, event_id)
                   /\ hist[<<user_id, event_id>>] = "none" IN
    /\ user_events' =
           IF success
           THEN Append(user_events, [user_id |-> user_id, event_id |-> event_id,
                                     registration_date |-> now])
           ELSE user_events
    /\ last' = Call("register_user_for_event", user_id, event_id, success)
    /\ hist' = IF success
               THEN [hist EXCEPT ![<<user_id, event_id>>] = "registered"]
               ELSE hist
    /\ UNCHANGED <<users, events, now, raceVars, rec, fn>>

\* DatabaseManager.register_user_for_event
RegisterUserForEvent(user_id, event_id) ==
    LET success == ~InsertRaises(user_events, user_id, event_id) IN
    /\ user_events' =
           IF success
           THEN Append(user_events, [user_id |-> user_id, event_id |-> event_id,
                                     registration_date |-> now])
           ELSE user_events
    /\ last' = Call("register_user_for_event", user_id, event_id, success)
    /\ hist' = IF success
               THEN [hist EXCEPT ![<<user_id, event_id>>] = "registered"]
               ELSE hist
    /\ UNCHANGED <<users, events, now, raceVars, rec, fn>>

\* DatabaseManager.unregister_user_from_event
UnregisterUserFromEvent(user_id, event_id) ==
    LET success == UnregisterSuccess(user_events, user_id, event_id) IN
    /\ user_events' = DeleteRows(user_events, user_id, event_id)
    /\ last' = Call("unregister_user_from_event", user_id, event_id, success)
    /\ hist' = IF success
               THEN [hist EXCEPT ![<<user_id, event_id>>] = "unregistered"]
               ELSE hist
    /\ UNCHANGED <<users, events, now, raceVars, rec, fn>>

\* the inputs of the store specification
StoreInterests == {<<band>>}
StoreTitles == {"Open Mic"}
StoreTags == {<<band>>}
StoreDays == {PyList(<<"Monday">>)}
StoreOffices == {<<"Connection 1">>}
StoreDates == {d2025_08_05}

Next ==
    \/ Tick
    \/ \E i \in StoreInterests, d \in StoreDays, o \in StoreOffices :
           AddUser(i, d, o, MaxUsers)
    \/ \E t \in StoreTitles, g \in StoreTags, d \in StoreDates, o \in DOMAIN users :
           AddEvent(t, g, d, o, MaxEvents)
    \/ \E e \in RegEventIds, t \in StoreTitles, g \in StoreTags, d \in StoreDates :
           UpdateEvent(e, t, g, d)
    \/ \E p \in RegPairs : RegisterUserForEvent(p[1], p[2])
    \/ \E p \in RegPairs : UnregisterUserFromEvent(p[1], p[2])

\* the store under any sequence of calls by one caller
Spec == Init /\ [][Next]_vars


(***************************************************************************)
(* Properties of the store.                                                *)
(***************************************************************************)

\* C1: in every reachable state the registrations hold at most one row for
\* each (user id, event id) pair.
C1_OneRegistrationPerPair ==
    \A i, j \in DOMAIN user_events :
        (/\ user_events[i].user_id = user_events[j].user_id
         /\ user_events[i].event_id = user_events[j].event_id) => i = j

\* a second register of a registered pair was attempted, with other pairs
\* registered too
C1_Witness ==
    /\ last.op = "register_user_for_event"
    /\ ~last.ret
    /\ IsUserRegistered(last.user_id, last.event_id)
    /\ Len(user_events) >= 2

\* C2: a register_user_for_event call for a pair that has a registration
\* returns false and leaves the registrations, the timestamp of the existing
\* one included, as they were.
C2_DuplicateRegisterRejected ==
    [][(/\ last'.op = "register_user_for_event"
        /\ MatchingRows(user_events, last'.user_id, last'.event_id) # {}
        /\ RegisterUserForEvent(last'.user_id, last'.event_id))
       => (~last'.ret /\ user_events' = user_events)]_vars

\* a register of a registered pair was refused at a time later than the
\* registration's timestamp, which the registration still carries
C2_Witness ==
    /\ last.op = "register_user_for_event"
    /\ ~last.ret
    /\ \E i \in MatchingRows(user_events, last.user_id, last.event_id) :
           user_events[i].registration_date < now

\* C3: register_user_for_event returns false and creates no registration when
\* user_id is not a stored user's id or event_id is not a stored event's id.
C3_InvalidIdRejected ==
    (/\ last.op = "register_user_for_event"
     /\ (last.user_id \notin DOMAIN users \/ last.event_id \notin DOMAIN events))
    => (~last.ret /\ ~IsUserRegistered(last.user_id, last.event_id))

\* C4: unregister_user_from_event returns false when the pair has no
\* registration; when it has one it returns true and removes exactly that one.
C4_UnregisterResult ==
    [][(/\ last'.op = "unregister_user_from_event"
        /\ UnregisterUserFromEvent(last'.user_id, last'.event_id))
       => IF MatchingRows(user_events, last'.user_id, last'.event_id) = {}
          THEN ~last'.ret /\ user_events' = user_events
          ELSE /\ last'.ret
               /\ Len(user_events') = Len(user_events) - 1
               /\ user_events' =
                      DeleteRows(user_events, last'.user_id, last'.event_id)]_vars

\* C5: is_user_registered(u, e) returns true exactly in the states whose last
\* successful call among register(u, e) and unregister(u, e) is a register:
\* after a successful register with no successful unregister after it.
C5_RegisteredBetweenRegisterAndUnregister ==
    \A p \in RegPairs :
        IsUserRegistered(p[1], p[2]) <=> hist[p] = "registered"

\* a pair just unregistered, for which is_user_registered returns false,
\* beside a pair registered and not unregistered, for which it returns true
C5_Witness ==
    \E p, q \in RegPairs :
        /\ hist[p] = "unregistered" /\ ~IsUserRegistered(p[1], p[2])
        /\ last = Call("unregister_user_from_event", p[1], p[2], TRUE)
        /\ hist[q] = "registered" /\ IsUserRegistered(q[1], q[2])

(***************************************************************************)
(* register_user_for_event run by two callers at once, each on a           *)
(* connection of its own.  SQLite lets one connection at a time hold the   *)
(* write lock: the INSERT takes it (inside the transaction the sqlite3     *)
(* module opens before the statement), commit() or close() gives it up.    *)
(* A connection that finds the lock taken waits, and raises                *)
(* sqlite3.OperationalError (database is locked) when its timeout runs out.*)
(***************************************************************************)
Callers == {1, 2}

Other(p) == 3 - p

InCall(p) == pc[p] \in {"connect", "execute", "commit", "close"}

\* the INSERT run without the write lock being taken first
WriteLockFree(p) == TRUE

\* the INSERT can take the write lock: no other connection holds it
CanWrite(p) == wlock \in {0, p}

\* a caller enters register_user_for_event(user_id, event_id)
RaceCall(p, user_id, event_id) ==
    /\ pc[p] = "idle"
    /\ pc' = [pc EXCEPT ![p] = "connect"]
    /\ arg' = [arg EXCEPT ![p] = <<user_id, event_id>>]
    /\ overlapped' = (overlapped \/ InCall(Other(p)))
    /\ UNCHANGED <<storeVars, res, wlock, staged, rec, fn>>

\* conn = sqlite3.connect(self.db_name); cursor = conn.cursor()
RaceConnect(p) ==
    /\ pc[p] = "connect"
    /\ pc' = [pc EXCEPT ![p] = "execute"]
    /\ UNCHANGED <<storeVars, arg, res, wlock, staged, overlapped, rec, fn>>

\* cursor.execute(INSERT ...): the lock is taken; a constraint violation raises
\* sqlite3.IntegrityError and leaves the transaction, and the lock, open
RaceExecute(p) ==
    /\ pc[p] = "execute"
    /\ CanWrite(p)
    /\ wlock' = p
    /\ IF InsertRaises(user_events, arg[p][1], arg[p][2])
       THEN /\ res' = [res EXCEPT ![p] = <<FALSE>>]
            /\ pc' = [pc EXCEPT ![p] = "close"]
            /\ UNCHANGED staged
       ELSE /\ staged' = [staged EXCEPT ![p] =
                             <<[user_id |-> arg[p][1], event_id |-> arg[p][2],
                                registration_date |-> now]>>]
            /\ pc' = [pc EXCEPT ![p] = "commit"]
            /\ UNCHANGED res
    /\ UNCHANGED <<storeVars, arg, overlapped, rec, fn>>

\* cursor.execute(INSERT ...) gives up waiting for the lock:
\* sqlite3.OperationalError, caught as sqlite3.Error
RaceBusy(p) ==
    /\ pc[p] = "execute"
    /\ ~CanWrite(p)
    /\ res' = [res EXCEPT ![p] = <<FALSE>>]
    /\ pc' = [pc EXCEPT ![p] = "close"]
    /\ UNCHANGED <<storeVars, arg, wlock, staged, overlapped, rec, fn>>

\* conn.commit(); success = True
RaceCommit(p) ==
    /\ pc[p] = "commit"
    /\ user_events' = Append(user_events, staged[p][1])
    /\ hist' = [hist EXCEPT ![arg[p]] = "registered"]
    /\ staged' = [staged EXCEPT ![p] = <<>>]
    /\ wlock' = IF wlock = p THEN 0 ELSE wlock
    /\ res' = [res EXCEPT ![p] = <<TRUE>>]
    /\ pc' = [pc EXCEPT ![p] = "close"]
    /\ UNCHANGED <<users, events, now, last, arg, overlapped, rec, fn>>

\* conn.close(), which rolls an open transaction back; return success
RaceClose(p) ==
    /\ pc[p] = "close"
    /\ wlock' = IF wlock = p THEN 0 ELSE wlock
    /\ pc' = [pc EXCEPT ![p] = "done"]
    /\ last' = Call("register_user_for_event", arg[p][1], arg[p][2], res[p][1])
    /\ UNCHANGED <<users, events, user_events, now, hist, arg, res, staged,
                   overlapped, rec, fn>>

NextRace ==
    \/ Tick
    \/ \E p \in Callers, q \in RegPairs : RaceCall(p, q[1], q[2])
    \/ \E p \in Callers : RaceConnect(p)
    \/ \E p \in Callers : RaceExecute(p)
    \/ \E p \in Callers : RaceBusy(p)
    \/ \E p \in Callers : RaceCommit(p)
    \/ \E p \in Callers : RaceClose(p)

\* two callers, one register_user_for_event call each, on the new store
SpecRace == Init /\ [][NextRace]_vars

\* C6: two register_user_for_event calls for one pair that has no
\* registration, run concurrently: under every interleaving exactly one
\* returns true, the other false, and the pair ends with one registration.
C6_RaceOneWinner ==
    (/\ pc[1] = "done" /\ pc[2] = "done"
     /\ arg[1] = arg[2])
    => /\ {res[1], res[2]} = {<<TRUE>>, <<FALSE>>}
       /\ Cardinality(MatchingRows(user_events, arg[1][1], arg[1][2])) = 1

\* both calls for one pair have returned, and they overlapped
C6_Witness ==
    /\ pc[1] = "done" /\ pc[2] = "done"
    /\ arg[1] = arg[2]
    /\ overlapped
    /\ res[2] = <<TRUE>>


(***************************************************************************)
(* The recommender: EventRecommender.recommend_events.                     *)
(***************************************************************************)

\* SELECT ... FROM users, the WHERE id = ? forgotten: fetchone() is the first row
GetFirstUser(user_id) ==
    IF DOMAIN users = {} THEN <<>>
    ELSE <<users[CHOOSE m \in DOMAIN users : \A k \in DOMAIN users : m <= k]>>

\* DatabaseManager.get_user_by_id: the row, or None
GetUserById(user_id) ==
    IF user_id \in DOMAIN users THEN <<users[user_id]>> ELSE <<>>

\* DatabaseManager.get_all_events: the rows of events in rowid order
GetAllEvents ==
    [i \in 1..Cardinality(DOMAIN events) |->
        events[CHOOSE id \in DOMAIN events :
                   Cardinality({k \in DOMAIN events : k < id}) = i - 1]]

\* similarity >= similarity_threshold
AtOrAboveThreshold(similarity, similarity_threshold) ==
    ~ScoreGt(similarity_threshold, similarity)

\* similarity > similarity_threshold
AboveThreshold(similarity, similarity_threshold) ==
    ScoreGt(similarity, similarity_threshold)

\* an insertion that puts x before the entries of its own score
InsertBeforeTies(sorted, x) ==
    LET k == Cardinality({i \in DOMAIN sorted : ScoreGt(sorted[i][2], x[2])})
    IN  SubSeq(sorted, 1, k) \o <<x>> \o SubSeq(sorted, k + 1, Len(sorted))

\* one step of the stable sort: x goes after every entry whose score is at
\* least its own
InsertDesc(sorted, x) ==
    LET k == Cardinality({i \in DOMAIN sorted : ~ScoreGt(x[2], sorted[i][2])})
    IN  SubSeq(sorted, 1, k) \o <<x>> \o SubSeq(sorted, k + 1, Len(sorted))

RECURSIVE SortPrefix(_, _)
SortPrefix(seq, n) ==
    IF n = 0 THEN <<>> ELSE InsertDesc(SortPrefix(seq, n - 1), seq[n])

\* recommendations.sort(key=lambda x: x[1], reverse=True): list.sort is stable,
\* with reverse=True too
SortBySimilarity(recommendations) ==
    SortPrefix(recommendations, Len(recommendations))

\* the locals of EventRecommender.recommend_events when it returns
RecommendEvents(user_id, similarity_threshold) ==
    LET user == GetUserById(user_id) IN
    IF user = <<>>
    THEN [called |-> TRUE, user_id |-> user_id, threshold |-> similarity_threshold,
          user |-> user, events |-> <<>>, out |-> <<>>]
    ELSE LET evs == GetAllEvents
             scored == [i \in DOMAIN evs |->
                           <<evs[i], CalculateSimilarity(user[1].interests,
                                                         evs[i].tags)>>]
             recommendations ==
                 SelectSeq(scored,
                           LAMBDA x : AboveThreshold(x[2], similarity_threshold))
         IN  [called |-> TRUE, user_id |-> user_id,
              threshold |-> similarity_threshold,
              user |-> user, events |-> evs,
              out |-> SortBySimilarity(recommendations)]

\* a call of EventRecommender.recommend_events
RecommendEventsCall(user_id, similarity_threshold) ==
    /\ rec' = RecommendEvents(user_id, similarity_threshold)
    /\ UNCHANGED <<storeVars, raceVars, fn>>

\* the inputs of the recommender specification
RecInterests == {<<jazz, music>>, <<>>}
RecTags == {<<band>>, <<karaoke, band>>, <<music, karaoke, jazz>>, <<MUSIC, Jazz>>}
RecUserIds == 1..MaxRecUsers
\* the thresholds 0.0, 0.1, 0.5 and 2/3
RecThresholds == {<<0, 1>>, <<1, 10>>, <<1, 2>>, <<2, 3>>}

NextRec ==
    \/ \E i \in RecInterests, d \in StoreDays, o \in StoreOffices :
           AddUser(i, d, o, MaxRecUsers)
    \/ \E g \in RecTags, d \in StoreDates :
           AddEvent("Open Mic", g, d, 1, MaxRecEvents)
    \/ \E u \in RecUserIds, t \in RecThresholds : RecommendEventsCall(u, t)

\* the recommender over a store that users and events are added to
SpecRec == Init /\ [][NextRec]_vars

(***************************************************************************)
(* Properties of the recommender.  rec holds the last call: the user and   *)
(* the events it read from the store, and the list it returned.            *)
(***************************************************************************)

\* the score of the i-th event the last call read, for the user it read
RecScore(i) == CalculateSimilarity(rec.user[1].interests, rec.events[i].tags)

\* the events of the returned list
RecReturned == {rec.out[j][1] : j \in DOMAIN rec.out}

\* the place in get_all_events() of a returned event
RecPos(event) == CHOOSE i \in DOMAIN rec.events : rec.events[i] = event

\* C7: for a stored user, recommend_events returns exactly the stored events
\* whose similarity to the user's interests is strictly greater than the
\* threshold, each once and with that similarity.
C7_ExactlyAboveThreshold ==
    (rec.called /\ rec.user # <<>>) =>
        /\ \A i \in DOMAIN rec.events :
               rec.events[i] \in RecReturned <=> ScoreGt(RecScore(i), rec.threshold)
        /\ \A j \in DOMAIN rec.out :
               /\ rec.out[j][1] \in Range(rec.events)
               /\ rec.out[j][2] = RecScore(RecPos(rec.out[j][1]))
               /\ ScoreGt(rec.out[j][2], rec.threshold)
        /\ Cardinality(RecReturned) = Len(rec.out)

\* a call that returned an event and left out one whose score equals the
\* threshold
C7_Witness ==
    /\ rec.called /\ rec.user # <<>>
    /\ rec.out # <<>>
    /\ \E i \in DOMAIN rec.events :
           /\ ScoreEq(RecScore(i), rec.threshold)
           /\ rec.events[i] \notin RecReturned

\* C8: the returned list is in order of non-increasing score, and returned
\* events of equal score are in their get_all_events() order.
C8_SortedStable ==
    rec.called =>
        \A j, k \in DOMAIN rec.out :
            j < k =>
                /\ ~ScoreGt(rec.out[k][2], rec.out[j][2])
                /\ ScoreEq(rec.out[j][2], rec.out[k][2])
                       => RecPos(rec.out[j][1]) < RecPos(rec.out[k][1])

\* a returned list with two events of equal score, and with an event moved
\* ahead of one that precedes it in get_all_events()
C8_Witness ==
    /\ rec.called
    /\ \E j, k \in DOMAIN rec.out :
           j < k /\ ScoreEq(rec.out[j][2], rec.out[k][2])
    /\ \E j, k \in DOMAIN rec.out :
           j < k /\ RecPos(rec.out[j][1]) > RecPos(rec.out[k][1])

\* C9: recommend_events returns the empty list, whatever the threshold, when
\* no user with the given id is stored.
C9_UnknownUserEmpty ==
    (rec.called /\ rec.user_id \notin DOMAIN users) => rec.out = <<>>

\* a call for an id that is not stored, at threshold 0.0, on a store where a
\* stored user has an event scoring above 0.0
C9_Witness ==
    /\ rec.called
    /\ rec.user_id \notin DOMAIN users
    /\ rec.threshold = Zero
    /\ rec.out = <<>>
    /\ \E u \in DOMAIN users, e \in DOMAIN events :
           ScoreGt(CalculateSimilarity(users[u].interests, events[e].tags), Zero)

\* the last call was made for a user with interests jazz, music at threshold
\* 0.5 and read an event with tags music, karaoke, jazz
C10_Example(i) ==
    /\ rec.called /\ rec.user # <<>>
    /\ rec.user[1].interests = <<jazz, music>>
    /\ rec.threshold = <<1, 2>>
    /\ i \in DOMAIN rec.events
    /\ rec.events[i].tags = <<music, karaoke, jazz>>

\* C10 as stated: interests {jazz, music} and tags {music, karaoke, jazz} score
\* 0.5, intersection 2 over union 4, and recommend_events with threshold 0.5
\* leaves the event out.
C10_AsStated ==
    \A i \in 1..MaxRecEvents :
        C10_Example(i) =>
            /\ ScoreEq(RecScore(i), <<1, 2>>)
            /\ rec.events[i] \notin RecReturned

\* C10, amended: interests {jazz, music} and tags {music, karaoke, jazz} score
\* 2/3, intersection 2 over union 3, and recommend_events with threshold 0.5
\* returns the event.
C10_TwoThirdsIncluded ==
    \A i \in 1..MaxRecEvents :
        C10_Example(i) =>
            /\ RecScore(i) = <<2, 3>>
            /\ rec.events[i] \in RecReturned

\* the example's call has been made
C10_Witness == \E i \in 1..MaxRecEvents : C10_Example(i)

(***************************************************************************)
(* The similarity engine on its own: calculate_similarity over every pair  *)
(* of short lists of the words below.  fn holds the call.                  *)
(***************************************************************************)
SimWords == {jazz, Jazz, music, MUSIC, karaoke}

\* the lists of at most MaxListLen words, repeated words included
SimLists == UNION {[1..n -> SimWords] : n \in 0..MaxListLen}

\* calculate_similarity about to be called on some pair of the lists
InitSim ==
    /\ InitStore /\ InitRace /\ InitRec
    /\ \E a \in SimLists, b \in SimLists :
           fn = [op |-> "calculate_similarity", returned |-> FALSE,
                 user_interests |-> a, event_tags |-> b, out |-> <<>>]

\* the call of EventRecommender.calculate_similarity
CalculateSimilarityCall ==
    /\ fn.op = "calculate_similarity" /\ ~fn.returned
    /\ fn' = [fn EXCEPT !.returned = TRUE,
                        !.out = CalculateSimilarity(fn.user_interests,
                                                    fn.event_tags)]
    /\ UNCHANGED <<storeVars, raceVars, rec>>

NextSim == CalculateSimilarityCall

SpecSim == InitSim /\ [][NextSim]_vars

\* the set of the lower-cased strings of a list
LowerSet(list) == {Lower(x) : x \in Range(list)}

\* C11: calculate_similarity(userInterests, eventTags) is |I \cap T| / |I \cup T|
\* for I, T the sets of the lower-cased strings of the two lists, so that lists
\* with the same I (resp. T) score the same; it lies in [0, 1]; it is 0.0 when
\* either list is empty.
C11_JaccardOfLowerCased ==
    (fn.op = "calculate_similarity" /\ fn.returned) =>
        LET I == LowerSet(fn.user_interests)
            T == LowerSet(fn.event_tags)
        IN  /\ (fn.user_interests = <<>> \/ fn.event_tags = <<>>) => fn.out = Zero
            /\ (fn.user_interests # <<>> /\ fn.event_tags # <<>>) =>
                   /\ fn.out[2] > 0
                   /\ fn.out[1] * Cardinality(I \cup T)
                          = Cardinality(I \cap T) * fn.out[2]
            /\ 0 <= fn.out[1] /\ fn.out[1] <= fn.out[2]
            /\ \A c \in SimLists :
                   /\ LowerSet(c) = I =>
                          ScoreEq(CalculateSimilarity(c, fn.event_tags), fn.out)
                   /\ LowerSet(c) = T =>
                          ScoreEq(CalculateSimilarity(fn.user_interests, c), fn.out)

\* a call whose first list repeats a string in two letter cases, and whose
\* score is neither 0.0 nor 1.0
C11_Witness ==
    /\ fn.op = "calculate_similarity" /\ fn.returned
    /\ Len(fn.user_interests) > Cardinality(LowerSet(fn.user_interests))
    /\ Range(fn.user_interests) # LowerSet(fn.user_interests)
    /\ ScoreGt(fn.out, Zero) /\ ScoreGt(<<1, 1>>, fn.out)

\* C12: calculate_similarity(A, B) equals calculate_similarity(B, A), and
\* calculate_similarity(A, A) equals 1.0 for every nonempty A.
C12_SymmetricAndReflexive ==
    (fn.op = "calculate_similarity" /\ fn.returned) =>
        /\ ScoreEq(fn.out, CalculateSimilarity(fn.event_tags, fn.user_interests))
        /\ fn.user_interests # <<>> =>
               ScoreEq(CalculateSimilarity(fn.user_interests, fn.user_interests),
                       <<1, 1>>)

\* a call on two lists of which one holds more distinct strings than the
\* other, with a string in common
C12_Witness ==
    /\ fn.op = "calculate_similarity" /\ fn.returned
    /\ Cardinality(LowerSet(fn.user_interests))
           < Cardinality(LowerSet(fn.event_tags))
    /\ ScoreGt(fn.out, Zero)


(***************************************************************************)
(* The filter engine: filter_events.  A price is a pair <<n, d>> like a    *)
(* score.  A datetime is a record of year, month, day, second of the day   *)
(* and microsecond; a parsed date is one at midnight.                      *)
(***************************************************************************)
All == <<"A", "l", "l">>
Free == <<"F", "r", "e", "e">>
Band1to50 == <<"$", "1", " ", "-", " ", "$", "5", "0">>
Band51to100 == <<"$", "5", "1", " ", "-", " ", "$", "1", "0", "0">>
Band100Plus == <<"$", "1", "0", "0", "+">>
Today == <<"T", "o", "d", "a", "y">>
ThisWeek == <<"T", "h", "i", "s", " ", "W", "e", "e", "k">>
ThisMonth == <<"T", "h", "i", "s", " ", "M", "o", "n", "t", "h">>
Future == <<"F", "u", "t", "u", "r", "e">>
Tomorrow == <<"T", "o", "m", "o", "r", "r", "o", "w">>
Music == <<"M", "u", "s", "i", "c">>
Food == <<"F", "o", "o", "d">>
HQ == <<"H", "Q">>
hq == <<"h", "q">>
Cafe == <<"C", "a", "f", "e">>
d2025_07_31 == <<"2", "0", "2", "5", "-", "0", "7", "-", "3", "1">>
d2025_08_01 == <<"2", "0", "2", "5", "-", "0", "8", "-", "0", "1">>
d2025_08_09 == <<"2", "0", "2", "5", "-", "0", "8", "-", "0", "9">>
d2025_09_01 == <<"2", "0", "2", "5", "-", "0", "9", "-", "0", "1">>
d2025_8_5 == <<"2", "0", "2", "5", "-", "8", "-", "5">>
d2025_02_30 == <<"2", "0", "2", "5", "-", "0", "2", "-", "3", "0">>
soon == <<"s", "o", "o", "n">>

DigitValue ==
    "0" :> 0 @@ "1" :> 1 @@ "2" :> 2 @@ "3" :> 3 @@ "4" :> 4 @@
    "5" :> 5 @@ "6" :> 6 @@ "7" :> 7 @@ "8" :> 8 @@ "9" :> 9

IsDigits(s) == \A i \in DOMAIN s : s[i] \in DOMAIN DigitValue

\* int() of a string of digits, a leading blank allowed
RECURSIVE ToInt(_)
ToInt(s) ==
    IF s = <<>> THEN 0
    ELSE IF s[Len(s)] = " " THEN 0
    ELSE 10 * ToInt(SubSeq(s, 1, Len(s) - 1)) + DigitValue[s[Len(s)]]

\* the directive %Y of strptime: four digits
MatchesYear(s) == Len(s) = 4 /\ IsDigits(s)

\* the directive %m of strptime: 1[0-2]|0[1-9]|[1-9]
MatchesMonth(s) ==
    /\ Len(s) \in {1, 2} /\ IsDigits(s)
    /\ ToInt(s) >= 1 /\ ToInt(s) <= 12

\* the directive %d of strptime: 3[0-1]|[1-2]\d|0[1-9]|[1-9]| [1-9]
MatchesDay(s) ==
    \/ /\ Len(s) \in {1, 2} /\ IsDigits(s)
       /\ ToInt(s) >= 1 /\ ToInt(s) <= 31
    \/ Len(s) = 2 /\ s[1] = " " /\ s[2] \in DOMAIN DigitValue /\ s[2] # "0"

IsLeap(year) == year % 4 = 0 /\ (year % 100 # 0 \/ year % 400 = 0)

DaysInMonth(year, month) ==
    IF month = 2 THEN (IF IsLeap(year) THEN 29 ELSE 28)
    ELSE IF month \in {4, 6, 9, 11} THEN 30 ELSE 31

\* datetime.strptime(s, '%Y-%m-%d'): the date at midnight, or <<>> for the
\* ValueError raised when s does not match the format or names no day of the
\* calendar (year 0, February 30)
ParseDate(s) ==
    LET dashes == {i \in DOMAIN s : s[i] = "-"} IN
    IF Cardinality(dashes) # 2 THEN <<>>
    ELSE LET p1 == CHOOSE i \in dashes : \A j \in dashes : i <= j
             p2 == CHOOSE i \in dashes : \A j \in dashes : j <= i
             Y == SubSeq(s, 1, p1 - 1)
             M == SubSeq(s, p1 + 1, p2 - 1)
             D == SubSeq(s, p2 + 1, Len(s))
         IN  IF ~(MatchesYear(Y) /\ MatchesMonth(M) /\ MatchesDay(D)) THEN <<>>
             ELSE IF ToInt(Y) < 1 \/ ToInt(D) > DaysInMonth(ToInt(Y), ToInt(M))
                  THEN <<>>
                  ELSE <<[year |-> ToInt(Y), month |-> ToInt(M), day |-> ToInt(D),
                          second |-> 0, microsecond |-> 0]>>

RECURSIVE DaysBeforeMonth(_, _)
DaysBeforeMonth(year, month) ==
    IF month = 1 THEN 0
    ELSE DaysBeforeMonth(year, month - 1) + DaysInMonth(year, month - 1)

\* date.toordinal(): the days from 0001-01-01, that day being 1
Ordinal(t) ==
    LET y == t.year - 1 IN
    y * 365 + (y \div 4) - (y \div 100) + (y \div 400)
        + DaysBeforeMonth(t.year, t.month) + t.day

\* the days between the two calendar dates, the time of day left out
DateDifferenceDays(a, b) == Ordinal(a) - Ordinal(b)

\* the days of the timedelta a - b after its normalisation, which leaves
\* 0 <= seconds < 86400 and 0 <= microseconds < 1000000: the floor of the
\* difference in days
TimedeltaDays(a, b) ==
    LET days == Ordinal(a) - Ordinal(b)
        seconds == a.second - b.second
        microseconds == a.microsecond - b.microsecond
        carried == seconds + (microseconds \div 1000000)
    IN  days + (carried \div 86400)

\* a > b on datetimes
DatetimeGt(a, b) ==
    LET ka == <<Ordinal(a), a.second, a.microsecond>>
        kb == <<Ordinal(b), b.second, b.microsecond>>
    IN  \/ ka[1] > kb[1]
        \/ ka[1] = kb[1] /\ ka[2] > kb[2]
        \/ ka[1] = kb[1] /\ ka[2] = kb[2] /\ ka[3] > kb[3]

\* a.date() == b.date()
SameDate(a, b) == a.year = b.year /\ a.month = b.month /\ a.day = b.day

\* the clock, microseconds later
Advance(t, microseconds) ==
    LET us == t.microsecond + microseconds
        s == t.second + (us \div 1000000)
        over == s \div 86400
        lastDay == t.day = DaysInMonth(t.year, t.month)
    IN  IF over = 0
        THEN [t EXCEPT !.second = s, !.microsecond = us % 1000000]
        ELSE [year |-> IF lastDay /\ t.month = 12 THEN t.year + 1 ELSE t.year,
              month |-> IF ~lastDay THEN t.month
                        ELSE IF t.month = 12 THEN 1 ELSE t.month + 1,
              day |-> IF lastDay THEN 1 ELSE t.day + 1,
              second |-> s % 86400, microsecond |-> us % 1000000]

\* a <= b on floats
ScoreLe(a, b) == ~ScoreGt(a, b)

\* the pass-through test written with and: both arguments have to be "All"
PassThroughBoth(filter_type, filter_value) ==
    filter_type = "All" /\ filter_value = All

\* if filter_type == "All" or filter_value == "All"
PassThrough(filter_type, filter_value) ==
    filter_type = "All" \/ filter_value = All

\* a == b, no lower-casing
EqualsExactly(a, b) == a = b

\* a.lower() == b.lower()
EqualsIgnoreCase(a, b) == Lower(a) = Lower(b)

\* the price bands with the first paid band starting above 0
PriceMatchesNoGap(price, filter_value) ==
    \/ filter_value = Free /\ ScoreEq(price, <<0, 1>>)
    \/ filter_value = Band1to50
           /\ ScoreGt(price, <<0, 1>>) /\ ScoreLe(price, <<50, 1>>)
    \/ filter_value = Band51to100
           /\ ScoreLe(<<51, 1>>, price) /\ ScoreLe(price, <<100, 1>>)
    \/ filter_value = Band100Plus /\ ScoreGt(price, <<100, 1>>)

\* the if/elif chain of the branch "Price Range"
PriceMatches(price, filter_value) ==
    \/ filter_value = Free /\ ScoreEq(price, <<0, 1>>)
    \/ filter_value = Band1to50
           /\ ScoreLe(<<1, 1>>, price) /\ ScoreLe(price, <<50, 1>>)
    \/ filter_value = Band51to100
           /\ ScoreLe(<<51, 1>>, price) /\ ScoreLe(price, <<100, 1>>)
    \/ filter_value = Band100Plus /\ ScoreGt(price, <<100, 1>>)

\* filter_value.lower() in [tag.lower() for tag in event['tags']]
TagsMatch(tags, filter_value) ==
    LET event_tags_lower == [i \in DOMAIN tags |-> Lower(tags[i])]
    IN  Lower(filter_value) \in Range(event_tags_lower)

\* the if/elif chain of the branch "Date", for a date that parsed
DateMatches(event_date, today, filter_value) ==
    \/ filter_value = Today /\ SameDate(event_date, today)
    \/ filter_value = ThisWeek
           /\ LET days_diff == TimedeltaDays(event_date, today)
              IN  0 <= days_diff /\ days_diff <= 7
    \/ filter_value = ThisMonth
           /\ event_date.month = today.month /\ event_date.year = today.year
    \/ filter_value = Future /\ DatetimeGt(event_date, today)

\* an except clause that names another exception
CaughtKeyError == {"KeyError"}

\* except ValueError
Caught == {"ValueError"}

\* one turn of the loop over events: "append", "skip", or "raise" for an
\* exception that leaves filter_events
Decide(event, filter_type, filter_value, today) ==
    IF filter_type = "Category"
    THEN IF EqualsIgnoreCase(event.category, filter_value) THEN "append" ELSE "skip"
    ELSE IF filter_type = "Location"
    THEN IF EqualsIgnoreCase(event.location, filter_value) THEN "append" ELSE "skip"
    ELSE IF filter_type = "Price Range"
    THEN IF PriceMatches(event.price, filter_value) THEN "append" ELSE "skip"
    ELSE IF filter_type = "Tags"
    THEN IF TagsMatch(event.tags, filter_value) THEN "append" ELSE "skip"
    ELSE IF filter_type = "Date"
    THEN LET event_date == ParseDate(event.date) IN
         IF event_date = <<>>
         THEN IF "ValueError" \in Caught THEN "append" ELSE "raise"
         ELSE IF DateMatches(event_date[1], today, filter_value)
              THEN "append" ELSE "skip"
    ELSE "skip"

\* the events of the first n turns that were appended
RECURSIVE KeepPrefix(_, _, _)
KeepPrefix(events_, outcome, n) ==
    IF n = 0 THEN <<>>
    ELSE IF outcome[n] = "append"
         THEN Append(KeepPrefix(events_, outcome, n - 1), events_[n])
         ELSE KeepPrefix(events_, outcome, n - 1)

\* datetime.now() in the i-th turn of the loop, when the first turn reads
\* clock and elapsed microseconds pass from one turn to the next
RECURSIVE ClockAt(_, _, _)
ClockAt(clock, elapsed, i) ==
    IF i = 1 THEN clock ELSE Advance(ClockAt(clock, elapsed, i - 1), elapsed)

\* filter_events: whether it raised, what each turn of the loop did, and the
\* list returned
FilterEvents(events_, filter_type, filter_value, clock, elapsed) ==
    IF PassThrough(filter_type, filter_value)
    THEN [raised |-> FALSE, outcome |-> <<>>, out |-> events_]
    ELSE LET outcome == [i \in DOMAIN events_ |->
                            Decide(events_[i], filter_type, filter_value,
                                   ClockAt(clock, elapsed, i))]
         IN  IF \E i \in DOMAIN events_ : outcome[i] = "raise"
             THEN [raised |-> TRUE, outcome |-> outcome, out |-> <<>>]
             ELSE [raised |-> FALSE, outcome |-> outcome,
                   out |-> KeepPrefix(events_, outcome, Len(events_))]

\* the events filter_events is called on
FilterEventPool ==
    {[id |-> 1, category |-> Music, location |-> HQ, price |-> <<0, 1>>,
      tags |-> <<Jazz, band>>, date |-> d2025_08_01],
     [id |-> 2, category |-> music, location |-> hq, price |-> <<1, 2>>,
      tags |-> <<karaoke>>, date |-> d2025_08_09],
     [id |-> 3, category |-> Food, location |-> HQ, price |-> <<1, 1>>,
      tags |-> <<>>, date |-> d2025_07_31],
     [id |-> 4, category |-> Food, location |-> Cafe, price |-> <<50, 1>>,
      tags |-> <<jazz>>, date |-> d2025_09_01],
     [id |-> 5, category |-> Music, location |-> Cafe, price |-> <<101, 2>>,
      tags |-> <<band>>, date |-> d2025_8_5],
     [id |-> 6, category |-> Food, location |-> hq, price |-> <<51, 1>>,
      tags |-> <<karaoke, Jazz>>, date |-> d2025_02_30],
     [id |-> 7, category |-> music, location |-> HQ, price |-> <<100, 1>>,
      tags |-> <<band>>, date |-> soon],
     [id |-> 8, category |-> Music, location |-> HQ, price |-> <<10001, 100>>,
      tags |-> <<>>, date |-> d2025_08_01]}

FilterEventLists == UNION {[1..n -> FilterEventPool] : n \in 0..MaxFilterEvents}

\* the filter types of the page, and one it does not offer
FilterTypes ==
    {"All", "Category", "Location", "Price Range", "Tags", "Date", "Organiser"}

\* the filter values of get_filter_options, and one no branch tests for
FilterValues ==
    {All, Free, Band1to50, Band51to100, Band100Plus,
     Today, ThisWeek, ThisMonth, Future, Tomorrow,
     music, Food, hq, Jazz}

\* the instants datetime.now() is first read at: a midnight, a morning, and the
\* last microsecond of a month
FilterClocks ==
    {[year |-> 2025, month |-> 8, day |-> 1, second |-> 0, microsecond |-> 0],
     [year |-> 2025, month |-> 8, day |-> 1, second |-> 36000, microsecond |-> 0],
     [year |-> 2025, month |-> 8, day |-> 31, second |-> 86399,
      microsecond |-> 999999]}

\* the microseconds from one turn of the loop to the next
FilterElapsed == {0, 1}

\* filter_events about to be called
InitFilter ==
    /\ InitStore /\ InitRace /\ InitRec
    /\ \E l \in FilterEventLists, t \in FilterTypes, v \in FilterValues,
          c \in FilterClocks, d \in FilterElapsed :
           fn = [op |-> "filter_events", returned |-> FALSE,
                 events |-> l, filter_type |-> t, filter_value |-> v,
                 clock |-> c, elapsed |-> d,
                 raised |-> FALSE, outcome |-> <<>>, out |-> <<>>]

\* filter_events filtering the list it is given in place
FilterEventsInPlace ==
    /\ fn.op = "filter_events" /\ ~fn.returned
    /\ LET r == FilterEvents(fn.events, fn.filter_type, fn.filter_value,
                             fn.clock, fn.elapsed)
       IN  fn' = [fn EXCEPT !.returned = TRUE, !.raised = r.raised,
                            !.outcome = r.outcome, !.out = r.out,
                            !.events = r.out]
    /\ UNCHANGED <<storeVars, raceVars, rec>>

\* the call of filter_events
FilterEventsCall ==
    /\ fn.op = "filter_events" /\ ~fn.returned
    /\ LET r == FilterEvents(fn.events, fn.filter_type, fn.filter_value,
                             fn.clock, fn.elapsed)
       IN  fn' = [fn EXCEPT !.returned = TRUE, !.raised = r.raised,
                            !.outcome = r.outcome, !.out = r.out]
    /\ UNCHANGED <<storeVars, raceVars, rec>>

NextFilter == FilterEventsCall

SpecFilter == InitFilter /\ [][NextFilter]_vars

(***************************************************************************)
(* Properties of filter_events.  fn holds the call: its arguments, the     *)
(* clock it read, and what it returned.                                    *)
(***************************************************************************)

\* filter_events has returned, or raised
Filtered == fn.op = "filter_events" /\ fn.returned

\* C13: filter_events returns its input events, the same elements in the same
\* order, whenever filter_type is "All" or filter_value is "All", whatever the
\* other argument is.
C13_PassThrough ==
    (Filtered /\ (fn.filter_type = "All" \/ fn.filter_value = All))
        => (~fn.raised /\ fn.out = fn.events)

\* a call with filter type "All" and a value that is not "All", on a list of
\* two events
C13_Witness ==
    /\ Filtered
    /\ fn.filter_type = "All" /\ fn.filter_value = Free
    /\ Len(fn.events) >= 2
    /\ fn.out = fn.events

\* a price n/d lies in the band a filter value names
PriceInBand(price, filter_value) ==
    LET n == price[1]
        d == price[2]
    IN  IF filter_value = Free THEN n = 0
        ELSE IF filter_value = Band1to50 THEN d <= n /\ n <= 50 * d
        ELSE IF filter_value = Band51to100 THEN 51 * d <= n /\ n <= 100 * d
        ELSE n > 100 * d

\* C14: with filter type "Price Range" filter_events returns exactly the events
\* whose price lies in the selected band, "Free" price = 0, "$1 - $50"
\* 1 <= price <= 50, "$51 - $100" 51 <= price <= 100, "$100+" price > 100; an
\* event priced strictly between 0 and 1 is returned for none of the four.
C14_PriceBands ==
    (/\ Filtered /\ fn.filter_type = "Price Range"
     /\ fn.filter_value \in {Free, Band1to50, Band51to100, Band100Plus})
    => /\ ~fn.raised
       /\ fn.out = SelectSeq(fn.events,
                             LAMBDA e : PriceInBand(e.price, fn.filter_value))
       /\ \A i \in DOMAIN fn.events :
              (0 < fn.events[i].price[1]
                   /\ fn.events[i].price[1] < fn.events[i].price[2])
              => fn.events[i] \notin Range(fn.out)

\* a call for the band "$1 - $50" that returned an event and left out one
\* priced between 0 and 1
C14_Witness ==
    /\ Filtered /\ fn.filter_type = "Price Range"
    /\ fn.filter_value = Band1to50
    /\ fn.out # <<>>
    /\ \E i \in DOMAIN fn.events :
           /\ 0 < fn.events[i].price[1]
           /\ fn.events[i].price[1] < fn.events[i].price[2]
           /\ fn.events[i] \notin Range(fn.out)

\* two strings are equal when letter case is ignored
SameIgnoringCase(a, b) ==
    /\ Len(a) = Len(b)
    /\ \A k \in DOMAIN a : LowerChar(a[k]) = LowerChar(b[k])

\* C15: with filter type "Category" (resp. "Location") filter_events returns
\* exactly the events whose category (resp. location) equals filter_value when
\* letter case is ignored; with "Tags", exactly the events having at least one
\* tag equal to filter_value when letter case is ignored.
C15_CaseInsensitiveMatch ==
    Filtered /\ fn.filter_value # All =>
        /\ fn.filter_type = "Category" =>
               /\ ~fn.raised
               /\ fn.out = SelectSeq(fn.events, LAMBDA e :
                               SameIgnoringCase(e.category, fn.filter_value))
        /\ fn.filter_type = "Location" =>
               /\ ~fn.raised
               /\ fn.out = SelectSeq(fn.events, LAMBDA e :
                               SameIgnoringCase(e.location, fn.filter_value))
        /\ fn.filter_type = "Tags" =>
               /\ ~fn.raised
               /\ fn.out = SelectSeq(fn.events, LAMBDA e :
                               \E k \in DOMAIN e.tags :
                                   SameIgnoringCase(e.tags[k], fn.filter_value))

\* a call by category that returned an event whose category differs from the
\* filter value in letter case, and left another event out
C15_Witness ==
    /\ Filtered /\ fn.filter_type = "Category"
    /\ \E i \in DOMAIN fn.events :
           /\ fn.events[i].category # fn.filter_value
           /\ fn.events[i] \in Range(fn.out)
    /\ Len(fn.out) < Len(fn.events)

\* the instant the i-th turn of the loop read
FilterToday(i) == ClockAt(fn.clock, fn.elapsed, i)

\* the calendar days from the day of the instant the i-th turn read to the
\* date of that turn's event
DaysAhead(i) ==
    Ordinal(ParseDate(fn.events[i].date)[1]) - Ordinal(FilterToday(i))

\* the instant the i-th turn read is a midnight
AtMidnight(i) == FilterToday(i).second = 0 /\ FilterToday(i).microsecond = 0

\* C16: with filter type "Date" and filter value "This Week", an event with a
\* parsable date is returned iff the whole days from the current instant to
\* the event's date (its midnight) are at least 0 and at most 7, that is iff
\* the event's midnight is not before the instant and less than 8 days after
\* it; an event dated before the current day is never returned.
C16_ThisWeek ==
    (Filtered /\ fn.filter_type = "Date" /\ fn.filter_value = ThisWeek) =>
        /\ ~fn.raised
        /\ fn.out = KeepPrefix(fn.events, fn.outcome, Len(fn.events))
        /\ \A i \in DOMAIN fn.events :
               ParseDate(fn.events[i].date) # <<>> =>
                   /\ fn.outcome[i] = "append" <=>
                          \/ DaysAhead(i) = 0 /\ AtMidnight(i)
                          \/ DaysAhead(i) \in 1..7
                          \/ DaysAhead(i) = 8 /\ ~AtMidnight(i)
                   /\ DaysAhead(i) < 0 => fn.outcome[i] # "append"

\* a "This Week" call, after midnight, that left out an event dated on the
\* current day and returned one dated eight days ahead
C16_Witness ==
    /\ Filtered /\ fn.filter_type = "Date" /\ fn.filter_value = ThisWeek
    /\ \E i, j \in DOMAIN fn.events :
           /\ ParseDate(fn.events[i].date) # <<>>
           /\ ParseDate(fn.events[j].date) # <<>>
           /\ DaysAhead(i) = 0 /\ ~AtMidnight(i) /\ fn.outcome[i] = "skip"
           /\ DaysAhead(j) = 8 /\ fn.outcome[j] = "append"
           /\ fn.out = <<fn.events[j]>>

\* C17: with filter type "Date", every event whose date string cannot be parsed
\* as YYYY-MM-DD is in the list filter_events returns, for every filter value
\* other than "All", and filter_events does not raise.
C17_UnparsableIncluded ==
    (Filtered /\ fn.filter_type = "Date" /\ fn.filter_value # All) =>
        /\ ~fn.raised
        /\ \A i \in DOMAIN fn.events :
               ParseDate(fn.events[i].date) = <<>> =>
                   /\ fn.outcome[i] = "append"
                   /\ fn.events[i] \in Range(fn.out)
        /\ Cardinality({i \in DOMAIN fn.events :
                           ParseDate(fn.events[i].date) = <<>>}) <= Len(fn.out)

\* a call by date, for a value no branch tests for, that returned the event
\* with the unparsable date and not the one with a date
C17_Witness ==
    /\ Filtered /\ fn.filter_type = "Date" /\ fn.filter_value = Tomorrow
    /\ \E i, j \in DOMAIN fn.events :
           /\ ParseDate(fn.events[i].date) = <<>>
           /\ ParseDate(fn.events[j].date) # <<>>
           /\ fn.out = <<fn.events[i]>>

(***************************************************************************)
(* The preference aggregator: DatabaseManager.get_preferences_by_interests *)
(* over the rows of users.  A Counter is a function from the keys counted  *)
(* to their counts.                                                        *)
(***************************************************************************)
running == <<"r", "u", "n", "n", "i", "n", "g">>

\* cursor.fetchall() of SELECT ... FROM users: the rows in rowid order
GetUserRows ==
    [i \in 1..Cardinality(DOMAIN users) |->
        users[CHOOSE id \in DOMAIN users :
                  Cardinality({k \in DOMAIN users : k < id}) = i - 1]]

\* the text of the column interests, which add_user writes with json.dumps
InterestsJson(row) == JsonDumps(PyList(row.interests))

\* ctr[key] += 1 on a Counter
Increment(ctr, key) ==
    IF key \in DOMAIN ctr
    THEN [ctr EXCEPT ![key] = @ + 1]
    ELSE ctr @@ (key :> 1)

\* for d in days: day_ctr[d] += 1, over the first n days
RECURSIVE CountDays(_, _, _)
CountDays(day_ctr, days, n) ==
    IF n = 0 THEN day_ctr
    ELSE Increment(CountDays(day_ctr, days, n - 1), days[n])

\* whether for d in days can run: a list is iterated, None raises TypeError
Iterable(days) == days.type = "list"

\* days = json.loads(days_json) if days_json else [], with
\* except json.JSONDecodeError: days = []
LoadDays(days_json) ==
    IF days_json = <<>> \/ days_json[1] = EmptyText
    THEN PyList(<<>>)
    ELSE LET loaded == JsonLoads(days_json[1])
         IN  IF loaded = <<>> THEN PyList(<<>>) ELSE loaded[1]

\* the office count taken once per preferred day of the user
CountOfficePerDay(office_ctr, office, days) ==
    IF Len(days) = 0 THEN office_ctr
    ELSE [k \in DOMAIN office_ctr \cup {office} |->
             IF k = office
             THEN (IF k \in DOMAIN office_ctr THEN office_ctr[k] ELSE 0) + Len(days)
             ELSE office_ctr[k]]

\* office_ctr[office] += 1
CountOffice(office_ctr, office, days) == Increment(office_ctr, office)

\* the inner loop of get_preferences_by_interests over the first n rows, for
\* one interest: the two counters, or raised for an exception that leaves it
RECURSIVE CountRows(_, _, _)
CountRows(rows, interest, n) ==
    IF n = 0
    THEN [raised |-> FALSE, day_ctr |-> <<>>, office_ctr |-> <<>>]
    ELSE LET before == CountRows(rows, interest, n - 1)
             user_interests == JsonLoads(InterestsJson(rows[n]))
         IN  IF before.raised THEN before
             ELSE IF user_interests = <<>> THEN before
             ELSE IF interest \notin Range(user_interests[1].items) THEN before
             ELSE LET days == LoadDays(rows[n].preferred_day)
                  IN  IF ~Iterable(days)
                      THEN [before EXCEPT !.raised = TRUE]
                      ELSE [raised |-> FALSE,
                            day_ctr |-> CountDays(before.day_ctr, days.items,
                                                  Len(days.items)),
                            office_ctr |-> CountOffice(before.office_ctr,
                                                       rows[n].office_location,
                                                       days.items)]

\* DatabaseManager.get_preferences_by_interests: whether it raised, and the
\* mapping it returned
GetPreferencesByInterests(interest_list) ==
    LET rows == GetUserRows
        counted == [interest \in Range(interest_list) |->
                       CountRows(rows, interest, Len(rows))]
    IN  IF \E interest \in Range(interest_list) : counted[interest].raised
        THEN [raised |-> TRUE, result |-> <<>>]
        ELSE [raised |-> FALSE,
              result |-> [interest \in Range(interest_list) |->
                             [preferred_day |-> counted[interest].day_ctr,
                              office_location |-> counted[interest].office_ctr]]]

\* the interests, the stored preferred days and the offices of the rows of
\* users: the lists add_user is given (the day lists without a repeated day),
\* None for a user without preferred days, and the texts and the NULL the
\* column preferred_day also accepts
PrefInterests == {<<running>>, <<band, running>>, <<band, karaoke>>}
PrefDays ==
    {<<JsonDumps(PyList(<<"Monday", "Friday">>))>>,
     <<JsonDumps(PyList(<<"Monday">>))>>,
     <<JsonDumps(PyNone)>>, <<Undecodable>>, <<EmptyText>>, <<>>}
PrefOffices == {<<"Connection 1">>, <<>>}

\* the tables of at least one (init_database seeds an empty table) and at most
\* MaxPrefUsers rows, ids 1, 2, ...
PrefTables ==
    UNION {[1..n -> [interests : PrefInterests, preferred_day : PrefDays,
                     office_location : PrefOffices]] : n \in 1..MaxPrefUsers}

PrefInterestLists == {<<running>>, <<band, running>>, <<karaoke>>, <<>>}

\* a database file as init_database finds it, with users in it (so that
\* nothing is seeded), and get_preferences_by_interests about to be called
InitPrefs ==
    /\ \E t \in PrefTables :
           users = [id \in DOMAIN t |->
                       [id |-> id, interests |-> t[id].interests,
                        preferred_day |-> t[id].preferred_day,
                        office_location |-> t[id].office_location]]
    /\ events = SeedEvents
    /\ user_events = <<>>
    /\ now = 0
    /\ last = Call("init_database", 0, 0, TRUE)
    /\ hist = [p \in RegPairs |-> "none"]
    /\ InitRace /\ InitRec
    /\ \E l \in PrefInterestLists :
           fn = [op |-> "get_preferences_by_interests", returned |-> FALSE,
                 interest_list |-> l, raised |-> FALSE, result |-> <<>>]

\* the call of DatabaseManager.get_preferences_by_interests
GetPreferencesCall ==
    /\ fn.op = "get_preferences_by_interests" /\ ~fn.returned
    /\ LET r == GetPreferencesByInterests(fn.interest_list)
       IN  fn' = [fn EXCEPT !.returned = TRUE, !.raised = r.raised,
                            !.result = r.result]
    /\ UNCHANGED <<storeVars, raceVars, rec>>

NextPrefs == GetPreferencesCall

SpecPrefs == InitPrefs /\ [][NextPrefs]_vars

(***************************************************************************)
(* Properties of get_preferences_by_interests.                             *)
(***************************************************************************)

\* the call has returned, or raised
PrefsDone == fn.op = "get_preferences_by_interests" /\ fn.returned

\* the users whose interest list holds the interest
MatchingUsers(interest) ==
    {id \in DOMAIN users : \E k \in DOMAIN users[id].interests :
                               users[id].interests[k] = interest}

\* the stored preferred days of a user are a list of days
HasDayList(id) ==
    /\ users[id].preferred_day # <<>>
    /\ users[id].preferred_day[1].kind = "json"
    /\ users[id].preferred_day[1].value.type = "list"

\* the preferred days of a user: those of the stored list, none without one
PreferredDays(id) ==
    IF HasDayList(id)
    THEN Range(users[id].preferred_day[1].value.items)
    ELSE {}

RECURSIVE SumOver(_, _)
SumOver(ctr, keys) ==
    IF keys = {} THEN 0
    ELSE LET k == CHOOSE x \in keys : TRUE
         IN  ctr[k] + SumOver(ctr, keys \ {k})

C19_MalformedDaysCountNothing ==
    (/\ PrefsDone
     /\ \E interest \in Range(fn.interest_list) :
            \E id \in MatchingUsers(interest) : ~HasDayList(id))
    => /\ ~fn.raised
       /\ \A interest \in Range(fn.interest_list) :
              LET day_ctr == fn.result[interest].preferred_day
                  office_ctr == fn.result[interest].office_location
                  matching == MatchingUsers(interest)
              IN  /\ \A o \in DOMAIN office_ctr :
                         office_ctr[o] =
                             Cardinality({id \in matching :
                                             users[id].office_location = o})
                  /\ SumOver(office_ctr, DOMAIN office_ctr) = Cardinality(matching)
                  /\ \A d \in DOMAIN day_ctr :
                         day_ctr[d] =
                             Cardinality({id \in matching :
                                             HasDayList(id) /\ d \in PreferredDays(id)})

(***************************************************************************)
(* The events of a user: DatabaseManager.get_user_events over a database   *)
(* file as init_database finds it, with users in it (so that nothing is    *)
(* seeded), events dated YYYY-MM-DD as add_event's callers and the seed    *)
(* write them, and registrations in the order they were made.              *)
(***************************************************************************)
d2024_12_31 == <<"2", "0", "2", "4", "-", "1", "2", "-", "3", "1">>
d2025_10_01 == <<"2", "0", "2", "5", "-", "1", "0", "-", "0", "1">>

\* the bytes of the characters of a date
CharCode ==
    "-" :> 45 @@ "0" :> 48 @@ "1" :> 49 @@ "2" :> 50 @@ "3" :> 51 @@ "4" :> 52 @@
    "5" :> 53 @@ "6" :> 54 @@ "7" :> 55 @@ "8" :> 56 @@ "9" :> 57

\* a <= b on TEXT values under SQLite's collation BINARY: byte by byte
RECURSIVE TextLe(_, _)
TextLe(a, b) ==
    IF a = <<>> THEN TRUE
    ELSE IF b = <<>> THEN FALSE
    ELSE IF CharCode[a[1]] < CharCode[b[1]] THEN TRUE
    ELSE IF CharCode[a[1]] > CharCode[b[1]] THEN FALSE
    ELSE TextLe(Tail(a), Tail(b))

\* the SELECT without its ORDER BY clause: the rows in any order
NoOrderBy(a, b) == TRUE

\* ORDER BY e.date: row a may come before row b
OrderBy(a, b) == TextLe(a.date, b.date)

\* the rows of events e JOIN user_events ue ON e.id = ue.event_id
\* WHERE ue.user_id = ?, each as the dictionary get_user_events builds
JoinedRows(user_id) ==
    {[id |-> events[e].id, title |-> events[e].title, tags |-> events[e].tags,
      date |-> events[e].date, organiser_id |-> events[e].organiser_id,
      registration_date |-> user_events[i].registration_date] :
        <<e, i>> \in {p \in (DOMAIN events) \X (DOMAIN user_events) :
                         /\ user_events[p[2]].event_id = p[1]
                         /\ user_events[p[2]].user_id = user_id}}

\* DatabaseManager.get_user_events: the lists it may return, one for each
\* order ORDER BY leaves open among rows of equal date
GetUserEvents(user_id) ==
    LET rows == JoinedRows(user_id) IN
    {s \in [1..Cardinality(rows) -> rows] :
        /\ Range(s) = rows
        /\ \A j, k \in DOMAIN s : j < k => OrderBy(s[j], s[k])}

\* the dates of the stored events, in the format the seed and the event editor
\* (strftime("%Y-%m-%d")) write; ORDER BY compares the texts
ListedDates == {d2024_12_31, d2025_08_05, d2025_10_01}

\* the tables of at most MaxListedEvents events, ids 1, 2, ...
ListedEventTables ==
    UNION {[1..n -> ListedDates] : n \in 0..MaxListedEvents}

\* the pairs registered, in the order of their registration: user ids 1 and 2,
\* event ids that are stored or not
ListedRegistrations ==
    UNION {{s \in [1..n -> RegUserIds \X (1..MaxListedEvents)] :
               \A j, k \in 1..n : s[j] = s[k] => j = k} :
           n \in 0..MaxRegistrations}

\* get_user_events about to be called
InitUserEvents ==
    /\ users = SeedUsers
    /\ \E t \in ListedEventTables :
           events = [id \in DOMAIN t |->
                        [id |-> id, title |-> "Open Mic", tags |-> <<band>>,
                         date |-> t[id], organiser_id |-> 1]]
    /\ \E s \in ListedRegistrations :
           /\ user_events = [i \in DOMAIN s |->
                                [user_id |-> s[i][1], event_id |-> s[i][2],
                                 registration_date |-> i]]
           /\ now = Len(s)
           /\ hist = [p \in RegPairs |->
                         IF p \in Range(s) THEN "registered" ELSE "none"]
    /\ last = Call("init_database", 0, 0, TRUE)
    /\ InitRace /\ InitRec
    /\ \E u \in RegUserIds :
           fn = [op |-> "get_user_events", returned |-> FALSE,
                 user_id |-> u, out |-> <<>>]

\* the call of DatabaseManager.get_user_events
GetUserEventsCall ==
    /\ fn.op = "get_user_events" /\ ~fn.returned
    /\ \E s \in GetUserEvents(fn.user_id) :
           fn' = [fn EXCEPT !.returned = TRUE, !.out = s]
    /\ UNCHANGED <<storeVars, raceVars, rec>>

NextUserEvents == GetUserEventsCall

SpecUserEvents == InitUserEvents /\ [][NextUserEvents]_vars

\* the calendar day number of a stored date
DayNumber(date) == Ordinal(ParseDate(date)[1])

InitDatabaseReseed ==
    /\ fn.calls < MaxInits
    /\ users' = SeedUsers @@ users
    /\ events' = SeedEvents @@ events
    /\ fn' = [fn EXCEPT !.calls = @ + 1, !.seeded = TRUE]
    /\ last' = Call("init_database", 0, 0, TRUE)
    /\ UNCHANGED <<user_events, now, hist, raceVars, rec>>

\* DatabaseManager.init_database: CREATE TABLE IF NOT EXISTS keeps the tables
\* there are; populate_sample_data runs when SELECT COUNT(*) FROM users is 0
InitDatabase ==
    /\ fn.calls < MaxInits
    /\ IF Cardinality(DOMAIN users) = 0
       THEN /\ users' = users @@ SeedUsers
            /\ events' = events @@ SeedEvents
            /\ fn' = [fn EXCEPT !.calls = @ + 1, !.seeded = TRUE]
       ELSE /\ UNCHANGED <<users, events>>
            /\ fn' = [fn EXCEPT !.calls = @ + 1, !.seeded = FALSE]
    /\ last' = Call("init_database", 0, 0, TRUE)
    /\ UNCHANGED <<user_events, now, hist, raceVars, rec>>

\* no database file yet, and no DatabaseManager
InitNoFile ==
    /\ users = <<>>
    /\ events = <<>>
    /\ user_events = <<>>
    /\ now = 0
    /\ last = Call("none", 0, 0, TRUE)
    /\ hist = [p \in RegPairs |-> "none"]
    /\ InitRace /\ InitRec
    /\ fn = [op |-> "init_database", calls |-> 0, seeded |-> FALSE]

\* a DatabaseManager has been constructed
Constructed == fn.calls >= 1

NextInit ==
    \/ InitDatabase
    \/ Constructed /\ \E i \in StoreInterests, d \in StoreDays, o \in StoreOffices :
                          AddUser(i, d, o, MaxUsers)
    \/ Constructed /\ \E t \in StoreTitles, g \in StoreTags, d \in StoreDates,
                         o \in DOMAIN users : AddEvent(t, g, d, o, MaxEvents)
    \/ Constructed /\ \E e \in RegEventIds, t \in StoreTitles, g \in StoreTags,
                         d \in StoreDates : UpdateEvent(e, t, g, d)
    \/ Constructed /\ \E p \in RegPairs : RegisterUserForEvent(p[1], p[2])

\* constructions of DatabaseManager on one file, and calls between them
SpecInit == InitNoFile /\ [][NextInit]_vars

\* C21: init_database inserts the seed users and events only when users has no
\* row; run on a store that has users it leaves every user, event and
\* registration as it was.
C21_SeedOnlyWhenEmpty ==
    [][fn'.calls # fn.calls =>
          IF DOMAIN users = {}
          THEN /\ fn'.seeded
               /\ users' = SeedUsers
               /\ \A id \in DOMAIN SeedEvents : events'[id] = SeedEvents[id]
               /\ user_events' = user_events
          ELSE /\ ~fn'.seeded
               /\ users' = users /\ events' = events
               /\ user_events' = user_events]_vars

\* init_database has run again on a store whose seed event was edited and
\* that holds an added user and a registration, and has not seeded
C21_Witness ==
    /\ fn.calls >= 2 /\ ~fn.seeded
    /\ last.op = "init_database"
    /\ events[1] # SeedEvents[1]
    /\ Cardinality(DOMAIN users) > Cardinality(DOMAIN SeedUsers)
    /\ user_events # <<>>

(***************************************************************************)
(* The queries of DatabaseManager, each with the connection it opens: fn   *)
(* holds the query called, its arguments and, once it has returned or      *)
(* raised, the state of its connection and what it returned.               *)
(***************************************************************************)

\* json.loads(row[4]) if row[4] else None, on the stored preferred_day: <<>>
\* when json.loads raises json.JSONDecodeError
DecodePreferredDay(row) ==
    IF row.preferred_day = <<>> \/ row.preferred_day[1] = EmptyText
    THEN <<PyNone>>
    ELSE JsonLoads(row.preferred_day[1])

\* the dictionary get_all_users and get_user_by_id build from a row
UserDict(row) ==
    [id |-> row.id, interests |-> row.interests,
     preferred_day |-> DecodePreferredDay(row)[1],
     office_location |-> row.office_location]

\* the rows of users in rowid order
UserRows ==
    [i \in 1..Cardinality(DOMAIN users) |->
        users[CHOOSE id \in DOMAIN users :
                  Cardinality({k \in DOMAIN users : k < id}) = i - 1]]

\* DatabaseManager.get_all_users: the dictionaries are built before
\* conn.close(), so a row that does not decode leaves by the exception with
\* the connection open
GetAllUsers ==
    IF \E i \in DOMAIN UserRows : DecodePreferredDay(UserRows[i]) = <<>>
    THEN [raised |-> TRUE, conn |-> "open", out |-> <<>>]
    ELSE [raised |-> FALSE, conn |-> "closed",
          out |-> [i \in DOMAIN UserRows |-> UserDict(UserRows[i])]]

\* DatabaseManager.get_user_by_id with its connection: fetchone(), the
\* dictionary if there is a row, then conn.close()
GetUserByIdConn(user_id) ==
    IF user_id \notin DOMAIN users
    THEN [raised |-> FALSE, conn |-> "closed", out |-> <<>>]
    ELSE IF DecodePreferredDay(users[user_id]) = <<>>
         THEN [raised |-> TRUE, conn |-> "open", out |-> <<>>]
         ELSE [raised |-> FALSE, conn |-> "closed",
               out |-> <<UserDict(users[user_id])>>]

\* DatabaseManager.get_event_by_id: fetchone(), conn.close(), then the
\* dictionary, or None
GetEventById(event_id) ==
    IF event_id \in DOMAIN events
    THEN [raised |-> FALSE, conn |-> "closed", out |-> <<events[event_id]>>]
    ELSE [raised |-> FALSE, conn |-> "closed", out |-> <<>>]

\* DatabaseManager.get_organiser_id_for_event: result[0] if result else None
GetOrganiserIdForEvent(event_id) ==
    IF event_id \in DOMAIN events
    THEN [raised |-> FALSE, conn |-> "closed",
          out |-> <<events[event_id].organiser_id>>]
    ELSE [raised |-> FALSE, conn |-> "closed", out |-> <<>>]

\* the stored preferred_day texts (and NULL) of the users rows
QueryDays ==
    {<<JsonDumps(PyList(<<"Monday">>))>>, <<Undecodable>>, <<EmptyText>>, <<>>}

\* the users tables of one to MaxUsers rows, ids 1, 2, ...
QueryUserTables == UNION {[1..n -> QueryDays] : n \in 1..MaxUsers}

\* the registrations, in the order they were made: at most MaxQueryRows, of
\* ids that are stored or not
QueryRegistrations ==
    UNION {{s \in [1..n -> RegPairs] : \A j, k \in 1..n : s[j] = s[k] => j = k} :
           n \in 0..MaxQueryRows}

\* the queries and their arguments
QueryCalls ==
    {[op |-> "get_all_users", user_id |-> 0, event_id |-> 0]}
    \cup {[op |-> o, user_id |-> u, event_id |-> 0] :
            o \in {"get_user_by_id", "get_user_events"}, u \in RegUserIds}
    \cup {[op |-> o, user_id |-> 0, event_id |-> e] :
            o \in {"get_event_by_id", "get_organiser_id_for_event"},
            e \in RegEventIds}
    \cup {[op |-> "is_user_registered", user_id |-> p[1], event_id |-> p[2]] :
            p \in RegPairs}

\* a database file in use, and a query about to be called
InitQuery ==
    /\ \E t \in QueryUserTables :
           users = [id \in DOMAIN t |->
                       [id |-> id, interests |-> <<band>>,
                        preferred_day |-> t[id],
                        office_location |-> <<"Connection 1">>]]
    /\ \E n \in 1..MaxEvents :
           events = [id \in 1..n |->
                        [id |-> id, title |-> "Open Mic", tags |-> <<band>>,
                         date |-> d2025_08_05, organiser_id |-> 1]]
    /\ \E s \in QueryRegistrations :
           /\ user_events = [i \in DOMAIN s |->
                                [user_id |-> s[i][1], event_id |-> s[i][2],
                                 registration_date |-> i]]
           /\ now = Len(s)
           /\ hist = [p \in RegPairs |->
                         IF p \in Range(s) THEN "registered" ELSE "none"]
    /\ last = Call("init_database", 0, 0, TRUE)
    /\ InitRace /\ InitRec
    /\ \E c \in QueryCalls :
           fn = [op |-> c.op, returned |-> FALSE, user_id |-> c.user_id,
                 event_id |-> c.event_id, raised |-> FALSE, conn |-> "none",
                 out |-> <<>>]

\* what a query leaves in fn
Answer(r) ==
    /\ ~fn.returned
    /\ fn' = [fn EXCEPT !.returned = TRUE, !.raised = r.raised,
                        !.conn = r.conn, !.out = r.out]
    /\ UNCHANGED <<storeVars, raceVars, rec>>

GetAllUsersCall == fn.op = "get_all_users" /\ Answer(GetAllUsers)

GetUserByIdCall == fn.op = "get_user_by_id" /\ Answer(GetUserByIdConn(fn.user_id))

GetEventByIdCall == fn.op = "get_event_by_id" /\ Answer(GetEventById(fn.event_id))

GetOrganiserIdForEventCall ==
    fn.op = "get_organiser_id_for_event"
        /\ Answer(GetOrganiserIdForEvent(fn.event_id))

IsUserRegisteredCall ==
    fn.op = "is_user_registered"
        /\ Answer([raised |-> FALSE, conn |-> "closed",
                   out |-> <<IsUserRegistered(fn.user_id, fn.event_id)>>])

NextQuery ==
    \/ GetAllUsersCall
    \/ GetUserByIdCall
    \/ GetEventByIdCall
    \/ GetOrganiserIdForEventCall
    \/ GetUserEventsCall
    \/ IsUserRegisteredCall

SpecQuery == InitQuery /\ [][NextQuery]_vars

\* a query has returned or raised
Answered == fn.returned

\* C22: after any operation returns or fails (an undecodable stored list
\* included), no connection the operation opened remains open.
C22_ConnectionReleased == Answered => fn.conn # "open"

\* C25: a query for an absent id does not raise and returns None
\* (get_user_by_id, get_event_by_id, get_organiser_id_for_event), the empty
\* list (get_user_events) or False (is_user_registered).
C25_AbsentIdGivesEmpty ==
    Answered =>
        /\ (fn.op = "get_user_by_id" /\ fn.user_id \notin DOMAIN users)
              => (~fn.raised /\ fn.out = <<>>)
        /\ (fn.op \in {"get_event_by_id", "get_organiser_id_for_event"}
                /\ fn.event_id \notin DOMAIN events)
              => (~fn.raised /\ fn.out = <<>>)
        /\ (fn.op = "get_user_events" /\ fn.user_id \notin DOMAIN users)
              => (~fn.raised /\ fn.out = <<>>)
        /\ (fn.op = "is_user_registered"
                /\ (fn.user_id \notin DOMAIN users
                       \/ fn.event_id \notin DOMAIN events))
              => (~fn.raised /\ fn.out = <<FALSE>>)

(***************************************************************************)
(* The store again: what update_event, register_user_for_event and         *)
(* unregister_user_from_event leave alone, and the two ways of asking      *)
(* whether a user is registered.                                           *)
(***************************************************************************)

\* C23: update_event never changes the id or the organiser of any event, and
\* leaves every event other than the one it is called for as it was.  (The
\* steps that end with update_event as the last call are its own and Tick.)
C23_UpdateKeepsIdAndOrganiser ==
    [][last'.op = "update_event"
         => /\ DOMAIN events' = DOMAIN events
            /\ \A id \in DOMAIN events :
                   /\ events'[id].id = events[id].id
                   /\ events'[id].organiser_id = events[id].organiser_id
                   /\ id # last'.event_id => events'[id] = events[id]]_vars

\* the seed event has been edited by update_event while a second event, of
\* another organiser, is stored
C23_Witness ==
    /\ last.op = "update_event" /\ last.event_id = 1
    /\ events[1].title = "Open Mic"
    /\ events[1].organiser_id = SeedEvents[1].organiser_id
    /\ 2 \in DOMAIN events /\ events[2].organiser_id = 2

\* C27: for every user u and event id e, the event appears in
\* get_user_events(u) exactly when is_user_registered(u, e) is true.
C27_ListedIffRegistered ==
    \A p \in RegPairs :
        IsUserRegistered(p[1], p[2]) <=> (\E r \in JoinedRows(p[1]) : r.id = p[2])

\* C29: update_event returns True only when an event with the id it is called
\* for is stored; for an absent id it returns False.
C29_UpdateAbsentReturnsFalse ==
    (last.op = "update_event" /\ last.event_id \notin DOMAIN events) => ~last.ret

\* the registrations of the pairs other than (user_id, event_id)
OtherRegistrations(rows, user_id, event_id) ==
    SelectSeq(rows, LAMBDA r : ~(r.user_id = user_id /\ r.event_id = event_id))

\* C30: register_user_for_event and unregister_user_from_event for one pair,
\* whether they succeed or fail, leave every registration of any other pair
\* and every stored user and event as they were.  (The steps that end with one
\* of the two as the last call are their own and Tick.)
C30_OtherRegistrationsKept ==
    [][last'.op \in {"register_user_for_event", "unregister_user_from_event"}
         => /\ users' = users
            /\ events' = events
            /\ OtherRegistrations(user_events', last'.user_id, last'.event_id)
                 = OtherRegistrations(user_events, last'.user_id, last'.event_id)]_vars

\* a pair has been unregistered while the same user is registered for another
\* event and another user for the same event
C30_Witness ==
    /\ last.op = "unregister_user_from_event"
    /\ hist[<<last.user_id, last.event_id>>] = "unregistered"
    /\ ~IsUserRegistered(last.user_id, last.event_id)
    /\ \E e \in RegEventIds : e # last.event_id /\ IsUserRegistered(last.user_id, e)
    /\ \E u \in RegUserIds : u # last.user_id /\ IsUserRegistered(u, last.event_id)

\* C28: for one current instant and one event list, every event that
\* filter_events(events, "Date", "Today") returns is also returned by
\* filter_events(events, "Date", "This Week").
C28_TodayWithinThisWeek ==
    (Filtered /\ fn.filter_type = "Date" /\ fn.filter_value = Today
        /\ fn.elapsed = 0) =>
        LET week == FilterEvents(fn.events, "Date", ThisWeek, fn.clock, fn.elapsed)
        IN  \A i \in DOMAIN fn.out : \E j \in DOMAIN week.out :
                week.out[j] = fn.out[i]

(***************************************************************************)
(* The functions of the event page that only read: calculate_similarity,   *)
(* recommend_events, filter_events and get_filter_options.  The lists a    *)
(* call is given stay in fn beside what it returns.                        *)
(***************************************************************************)

\* the characters U+0020 to U+005F and U+0061 to U+007E in code point order
AsciiTo95 ==
    <<" ", "!", "\"", "#", "$", "%", "&", "'", "(", ")", "*", "+", ",", "-",
      ".", "/", "0", "1", "2", "3", "4", "5", "6", "7", "8", "9", ":", ";",
      "<", "=", ">", "?", "@", "A", "B", "C", "D", "E", "F", "G", "H", "I",
      "J", "K", "L", "M", "N", "O", "P", "Q", "R", "S", "T", "U", "V", "W",
      "X", "Y", "Z", "[", "\\", "]", "^", "_">>

AsciiFrom97 ==
    <<"a", "b", "c", "d", "e", "f", "g", "h", "i", "j", "k", "l", "m", "n",
      "o", "p", "q", "r", "s", "t", "u", "v", "w", "x", "y", "z", "{", "|",
      "}", "~">>

\* ord(c)
Ord(c) ==
    IF \E i \in DOMAIN AsciiTo95 : AsciiTo95[i] = c
    THEN 31 + CHOOSE i \in DOMAIN AsciiTo95 : AsciiTo95[i] = c
    ELSE 96 + CHOOSE i \in DOMAIN AsciiFrom97 : AsciiFrom97[i] = c

\* a < b on str: by code point, a proper prefix first
RECURSIVE StrLt(_, _)
StrLt(a, b) ==
    IF b = <<>> THEN FALSE
    ELSE IF a = <<>> THEN TRUE
    ELSE IF Ord(a[1]) < Ord(b[1]) THEN TRUE
    ELSE IF Ord(a[1]) > Ord(b[1]) THEN FALSE
    ELSE StrLt(Tail(a), Tail(b))

\* sorted(strings) for a set of str
Sorted(strings) ==
    CHOOSE s \in [1..Cardinality(strings) -> strings] :
        \A j, k \in DOMAIN s : j < k => StrLt(s[j], s[k])

\* the tags of all the events: all_tags.update(event['tags'])
AllTags(events_) == UNION {Range(events_[i].tags) : i \in DOMAIN events_}

\* get_filter_options
GetFilterOptions(events_, filter_type) ==
    IF filter_type = "All" THEN <<All>>
    ELSE IF filter_type = "Category"
    THEN <<All>> \o Sorted({events_[i].category : i \in DOMAIN events_})
    ELSE IF filter_type = "Location"
    THEN <<All>> \o Sorted({events_[i].location : i \in DOMAIN events_})
    ELSE IF filter_type = "Price Range"
    THEN <<All, Free, Band1to50, Band51to100, Band100Plus>>
    ELSE IF filter_type = "Tags"
    THEN <<All>> \o Sorted(AllTags(events_))
    ELSE IF filter_type = "Date"
    THEN <<All, Today, ThisWeek, ThisMonth, Future>>
    ELSE <<All>>

\* get_filter_options about to be called
InitOptions ==
    /\ InitStore /\ InitRace /\ InitRec
    /\ \E l \in FilterEventLists, t \in FilterTypes :
           fn = [op |-> "get_filter_options", returned |-> FALSE,
                 events |-> l, filter_type |-> t, out |-> <<>>]

\* the call of get_filter_options
GetFilterOptionsCall ==
    /\ fn.op = "get_filter_options" /\ ~fn.returned
    /\ fn' = [fn EXCEPT !.returned = TRUE,
                        !.out = GetFilterOptions(fn.events, fn.filter_type)]
    /\ UNCHANGED <<storeVars, raceVars, rec>>

\* one of the four functions about to be called on the seeded store
InitReadOnly == Init \/ InitSim \/ InitFilter \/ InitOptions

NextReadOnly ==
    \/ CalculateSimilarityCall
    \/ fn.op = "none" /\ \E u \in RecUserIds, t \in RecThresholds :
                             RecommendEventsCall(u, t)
    \/ FilterEventsCall
    \/ GetFilterOptionsCall

SpecReadOnly == InitReadOnly /\ [][NextReadOnly]_vars

\* C26: calculate_similarity, recommend_events, filter_events and
\* get_filter_options leave the store unchanged and do not modify the
\* collections passed to them.
C26_ReadOnly ==
    [][(fn' # fn \/ rec' # rec) =>
          /\ users' = users /\ events' = events /\ user_events' = user_events
          /\ fn.op = "calculate_similarity" =>
                 /\ fn'.user_interests = fn.user_interests
                 /\ fn'.event_tags = fn.event_tags
          /\ fn.op \in {"filter_events", "get_filter_options"} =>
                 fn'.events = fn.events]_vars

\* filter_events has returned fewer events than the list it was given holds
C26_Witness ==
    /\ fn.op = "filter_events" /\ fn.returned
    /\ Len(fn.events) = MaxFilterEvents
    /\ Len(fn.out) < Len(fn.events)
    /\ users = SeedUsers /\ events = SeedEvents

(***************************************************************************)
(* Registering again: register and unregister calls as time passes, and    *)
(* one get_user_events call, whose result keeps the registration dates it  *)
(* read.                                                                   *)
(***************************************************************************)

\* get_user_events about to be called on the new store
InitReRegister ==
    /\ InitStore /\ InitRace /\ InitRec
    /\ \E u \in RegUserIds :
           fn = [op |-> "get_user_events", returned |-> FALSE,
                 user_id |-> u, out |-> <<>>]

NextReRegister ==
    \/ Tick
    \/ \E p \in RegPairs : RegisterUserForEvent(p[1], p[2])
    \/ \E p \in RegPairs : UnregisterUserFromEvent(p[1], p[2])
    \/ GetUserEventsCall

SpecReRegister == InitReRegister /\ [][NextReRegister]_vars

\* C24: after a successful register and then a successful unregister of a
\* pair, a further register of the pair succeeds, and the registration it
\* creates carries the time of this later call.
C24_ReRegisterCarriesLaterTime ==
    [][(/\ last'.op = "register_user_for_event"
        /\ hist[<<last'.user_id, last'.event_id>>] = "unregistered"
        /\ RegisterUserForEvent(last'.user_id, last'.event_id))
         => /\ last'.ret
            /\ \E i \in DOMAIN user_events' :
                   /\ MatchingRows(user_events', last'.user_id, last'.event_id) = {i}
                   /\ user_events'[i].registration_date = now]_vars

\* a user has registered again for the seed event after unregistering: the
\* list get_user_events returned earlier holds the first registration's time,
\* and the registration stored now carries the later time of the last call
C24_Witness ==
    /\ last = Call("register_user_for_event", fn.user_id, 1, TRUE)
    /\ hist[<<fn.user_id, 1>>] = "registered"
    /\ fn.returned /\ Len(fn.out) = 1
    /\ fn.out[1].id = 1 /\ fn.out[1].registration_date < now
    /\ \E i \in DOMAIN user_events :
           /\ MatchingRows(user_events, fn.user_id, 1) = {i}
           /\ user_events[i].registration_date = now

=============================================================================
